---- MODULE Spec2Model ----
(***************************************************************************)
(* Model of the fastfeatures discovery core:                               *)
(*   core/utils.py              get_features_packages (the scanner)        *)
(*   core/models_discoverer.py  get_sql_models                             *)
(*   core/routes_discoverer.py  add_features_routes                        *)
(* A module name is kept as its sequence of dot-separated segments; it is  *)
(* turned into its characters (Str) wherever the code treats it as text,   *)
(* so that the regular expression is matched character by character.      *)
(***************************************************************************)
EXTENDS Integers, Sequences, FiniteSets, TLC

\* ------------------------------------------------------------------ bounds
MaxEntries == 4      \* entries (packages and modules) below the features root
MaxModules == 2      \* leaf modules among them
MaxId == 2           \* row ids 1..MaxId of a feature's table
MaxRequests == 2     \* HTTP requests in flight together
MaxCalls == 3        \* create_feature calls in one run

\* ------------------------------------------------------------- characters
Chars(seg) ==
  CASE seg = "features"     -> <<"f","e","a","t","u","r","e","s">>
    [] seg = "app"          -> <<"a","p","p">>
    [] seg = "modules"      -> <<"m","o","d","u","l","e","s">>
    [] seg = "billing"      -> <<"b","i","l","l","i","n","g">>
    [] seg = "routes"       -> <<"r","o","u","t","e","s">>
    [] seg = "models"       -> <<"m","o","d","e","l","s">>
    [] seg = "models_extra" -> <<"m","o","d","e","l","s","_","e","x","t","r","a">>
    [] seg = "invoice"      -> <<"i","n","v","o","i","c","e">>
    [] seg = "user"         -> <<"u","s","e","r">>
    [] seg = "sub"          -> <<"s","u","b">>

\* The text of a dotted name: segments joined with "."
RECURSIVE Str(_)
Str(segs) ==
  IF Len(segs) = 0 THEN <<>>
  ELSE IF Len(segs) = 1 THEN Chars(segs[1])
  ELSE Chars(segs[1]) \o <<".">> \o Str(Tail(segs))

\* ------------------------------------------------------ regular expressions
\* A compiled pattern is a sequence of tokens; q is the quantifier.
LitTok(c)  == [t |-> "lit",    c |-> c,   q |-> "1"]
AnyChar    == [t |-> "any",    c |-> "",  q |-> "1"]    \* .
EscDot     == LitTok(".")                               \* \.
NotDotStar == [t |-> "notdot", c |-> "",  q |-> "*"]    \* [^\.]*
NotDotPlus == [t |-> "notdot", c |-> "",  q |-> "+"]    \* [^.]+
EndTok     == [t |-> "end",    c |-> "",  q |-> "1"]    \* $

Lit(seg) == [i \in 1..Len(Chars(seg)) |-> LitTok(Chars(seg)[i])]

Accepts(tok, ch) ==
  CASE tok.t = "lit"    -> ch = tok.c
    [] tok.t = "any"    -> TRUE
    [] tok.t = "notdot" -> ch # "."
    [] OTHER            -> FALSE

\* re tokens i.. match s from position j on (backtracking matcher)
RECURSIVE MatchHere(_, _, _, _)
MatchHere(re, i, s, j) ==
  IF i > Len(re) THEN TRUE
  ELSE LET tok == re[i] IN
    IF tok.t = "end" THEN j = Len(s) + 1 /\ MatchHere(re, i + 1, s, j)
    ELSE IF tok.q = "1" THEN
      j <= Len(s) /\ Accepts(tok, s[j]) /\ MatchHere(re, i + 1, s, j + 1)
    ELSE IF tok.q = "*" THEN
      \/ MatchHere(re, i + 1, s, j)
      \/ j <= Len(s) /\ Accepts(tok, s[j]) /\ MatchHere(re, i, s, j + 1)
    ELSE \* "+"
      /\ j <= Len(s) /\ Accepts(tok, s[j])
      /\ \/ MatchHere(re, i + 1, s, j + 1)
         \/ MatchHere(re, i, s, j + 1)

\* re.search: the pattern may start anywhere in s
re_search(re, s) == \E j \in 1..(Len(s) + 1) : MatchHere(re, 1, s, j)

\* a pattern that begins with ^ : the match starts at the first character
re_anchored(re, s) == MatchHere(re, 1, s, 1)

\* the package_name arguments, and what re compiles each to
Compile(package_name) ==
  CASE package_name = "routes"          -> Lit("routes")
    [] package_name = "models.[^\\.]*"   -> Lit("models") \o <<AnyChar, NotDotStar>>
    [] package_name = "models"          -> Lit("models")
PackageNames == {"routes", "models.[^\\.]*", "models"}

\* fr"features\.[^\.]*\.{package_name}$"
regex(package_name) ==
  Lit("features") \o <<EscDot, NotDotStar, EscDot>> \o Compile(package_name) \o <<EndTok>>

\* ------------------------------------------------------------ package tree
\* Entries that may exist below the features root, as paths relative to it.
Universe ==
  { <<"routes">>,
    <<"billing">>, <<"billing", "routes">>, <<"billing", "models">>,
    <<"billing", "models", "invoice">>, <<"billing", "models", "user">>,
    <<"billing", "models_extra">>,
    <<"features">>, <<"features", "routes">>, <<"features", "models">>,
    <<"features", "sub">>,
    <<"features", "sub", "routes">> }

\* directories with an __init__ (what iter_modules reports with ispkg=True)
PkgPaths ==
  { <<"billing">>, <<"billing", "models">>, <<"features">>, <<"features", "sub">> }

IsPkg(p) == p \in PkgPaths

RootNames == { <<"features">>, <<"app", "features">>, <<"app", "modules">> }

Front(p) == SubSeq(p, 1, Len(p) - 1)
Last(p)  == p[Len(p)]

\* an entry exists only inside a package that exists
WellFormed(t) == \A p \in t : Len(p) > 1 => (Front(p) \in t /\ IsPkg(Front(p)))

ModulesOf(t) == {p \in t : ~IsPkg(p)}

\* trees given to the scanner
ScanTrees ==
  {t \in SUBSET Universe : Cardinality(t) <= MaxEntries /\ WellFormed(t)}

\* trees given to the collectors
Trees == {t \in ScanTrees : Cardinality(ModulesOf(t)) <= MaxModules}

\* file names of one directory are listed in sorted order
Rank(seg) ==
  CASE seg = "billing" -> 1 [] seg = "features" -> 2 [] seg = "invoice" -> 3
    [] seg = "models" -> 4 [] seg = "models_extra" -> 5 [] seg = "routes" -> 6
    [] seg = "sub" -> 7 [] seg = "user" -> 8

FullName(r, p) == r \o p

\* pkgutil.walk_packages(path=__path__, prefix=__name__ + "."): every entry of
\* a directory in sorted order, each package followed by its own entries.
RECURSIVE walk_dir(_, _, _, _)
walk_dir(r, t, dir, todo) ==
  IF todo = {} THEN <<>>
  ELSE LET p == CHOOSE x \in todo : \A y \in todo : Rank(Last(x)) <= Rank(Last(y))
           kids == {c \in t : Len(c) = Len(p) + 1 /\ Front(c) = p}
       IN  <<[mod_name |-> FullName(r, p), is_pkg |-> IsPkg(p)]>>
           \o (IF IsPkg(p) THEN walk_dir(r, t, p, kids) ELSE <<>>)
           \o walk_dir(r, t, dir, todo \ {p})

walk_packages(r, t) == walk_dir(r, t, <<>>, {p \in t : Len(p) = 1})

\* walk_packages imports each package it yields, to read its __path__
\* (the packages of the trees considered have an __init__ that loads)
walk_imports(r, t) ==
  LET w == walk_packages(r, t)
  IN  {w[i].mod_name : i \in {k \in 1..Len(w) : w[k].is_pkg}}

\* (mutation) the docstring's reading: False returns modules and packages
KindSelected_both(is_pkg, modules_only) == modules_only => ~is_pkg

\* utils.py:36   if is_pkg != modules_only
KindSelected(is_pkg, modules_only) == is_pkg # modules_only

\* utils.py:37-39   regex = fr"..."; re.search(regex, mod_name)
search_name(package_name, mod_name) == re_search(regex(package_name), Str(mod_name))

\* search_name, tabulated once over every name the model can build
AllNames == {FullName(r, p) : r \in RootNames, p \in Universe}
SearchTable ==
  [pn \in PackageNames |-> [n \in AllNames |-> search_name(pn, n)]]

NameSelected(package_name, mod_name) == SearchTable[package_name][mod_name]

RECURSIVE select(_, _, _)
select(packages, package_name, modules_only) ==
  IF packages = <<>> THEN <<>>
  ELSE LET e == Head(packages)
           rest == select(Tail(packages), package_name, modules_only)
       IN  IF KindSelected(e.is_pkg, modules_only) /\ NameSelected(package_name, e.mod_name)
           THEN <<e.mod_name>> \o rest
           ELSE rest

\* get_features_packages: the returned modules_list
get_features_packages(r, t, package_name, modules_only) ==
  select(walk_packages(r, t), package_name, modules_only)

\* ---------------------------------------------------------- module contents
\* What executing a leaf module does when it is imported: the exception it
\* raises ("none" when it loads), and the values dir() then enumerates.
\*   SQLModel         the imported sqlmodel.SQLModel class itself
\*   SchemaClass      class X(SQLModel)               (no table=True)
\*   TableClass       class X(SQLModel, table=True)
\*   DeclarativeBase  the imported sqlalchemy.orm.DeclarativeBase class
\*   MappedClass      declarative-base mapped class with __tablename__ = "x"
\*   APIRouter        the imported fastapi.APIRouter class
\*   router_a/b       APIRouter instances
\*   other            a value that is not a class and not a router
Loads(attrs) == [raises |-> "none", attrs |-> attrs]
Fails(exc)   == [raises |-> exc, attrs |-> <<>>]

ModuleBodies ==
  { Loads(<<"other">>),
    Loads(<<"SQLModel">>),
    Loads(<<"SchemaClass">>),
    Loads(<<"TableClass", "TableClass">>),
    Loads(<<"DeclarativeBase", "MappedClass">>),
    Loads(<<"APIRouter", "router_a", "router_b">>),
    Fails("ImportError"),
    Fails("AttributeError"),
    Fails("SyntaxError"),
    Fails("NameError") }

isclass(a) ==
  a \in {"SQLModel", "SchemaClass", "TableClass", "DeclarativeBase", "MappedClass", "APIRouter"}
issubclass_SQLModel(a)        == a \in {"SQLModel", "SchemaClass", "TableClass"}
issubclass_DeclarativeBase(a) == a \in {"DeclarativeBase", "MappedClass"}
\* SQLModel declares __tablename__ for every subclass (a declared_attr that
\* defaults to the lowercased class name); DeclarativeBase itself has none.
hasattr_tablename(a) == a \in {"SQLModel", "SchemaClass", "TableClass", "MappedClass"}
isinstance_APIRouter(a) == a \in {"router_a", "router_b"}

\* models_discoverer.py:38-40
is_model_class(a) ==
  /\ isclass(a)
  /\ (issubclass_SQLModel(a) \/ issubclass_DeclarativeBase(a))
  /\ hasattr_tablename(a)

\* except (ImportError, AttributeError)
is_caught(exc) == exc \in {"ImportError", "AttributeError"}

\* ------------------------------------------------------------------- state
VARIABLES
  root,      \* features_module.__name__, as segments
  tree,      \* entries below features_module.__path__
  content,   \* leaf module name -> what importing it does
  loaded,    \* sys.modules (names)
  call,      \* the last call made and its arguments
  result,    \* its return value
  raised,    \* the exception it let escape, "none" when it returned
  stdout,    \* what it printed
  imports,   \* the names it passed to importlib.import_module, in order
  app        \* application's route table: the routers included, in order,
             \* each router object named by its module and attribute

\* the rows of a feature's table and the HTTP requests in flight
\* (template_feature/routes.py, base_model_service.py)
VARIABLES
  store,     \* id -> the row's value, "absent" when there is no such row
  req,       \* request -> its endpoint, arguments, position and response
  fs,        \* path below app/features -> directory or file with its text
  gen        \* the create_feature calls so far, the last one and its outcome

vars == <<root, tree, content, loaded, call, result, raised, stdout, imports, app,
          store, req, fs, gen>>

\* what the discovery calls leave alone
otherVars == <<store, req, fs, gen>>

Ids == 1..MaxId
NoRows == [i \in Ids |-> "absent"]

Dir == [kind |-> "dir", text |-> <<>>]
File(text) == [kind |-> "file", text |-> text]

\* app/features with nothing in it; paths are relative to it
NoFeatures == [p \in {<<>>} |-> Dir]
NoGen == [calls |-> 0, feature_name |-> <<>>, returned |-> "none", echo |-> "none"]

NoCall == [op |-> "none", package_name |-> "", modules_only |-> TRUE]

Prefixes(r) == {SubSeq(r, 1, k) : k \in 1..Len(r)}

\* a features package by its conventional names (main.py: from app import features)
HostRoots == { <<"features">>, <<"app", "features">> }

Init ==
  /\ root \in HostRoots
  /\ tree \in Trees
  /\ content \in [{FullName(root, p) : p \in ModulesOf(tree)} -> ModuleBodies]
  /\ loaded = Prefixes(root)
  /\ call = NoCall
  /\ result = <<>>
  /\ raised = "none"
  /\ stdout = <<>>
  /\ imports = <<>>
  /\ app = <<>>
  /\ store = NoRows
  /\ req = <<>>
  /\ fs = NoFeatures
  /\ gen = NoGen

\* ----------------------------------------------------------------- actions
\* utils.py  get_features_packages(features_module, package_name, modules_only)
Scan(package_name, modules_only) ==
  /\ call' = [op |-> "get_features_packages", package_name |-> package_name,
              modules_only |-> modules_only]
  /\ result' = get_features_packages(root, tree, package_name, modules_only)
  /\ loaded' = loaded \cup walk_imports(root, tree)
  /\ raised' = "none"
  /\ stdout' = <<>>
  /\ imports' = <<>>
  /\ UNCHANGED <<root, tree, content, app>>
  /\ UNCHANGED otherVars

\* One printed line: what it reports, the module it names, the cause it gives
Line(kind, module, cause) == [kind |-> kind, module |-> module, cause |-> cause]

\* models_discoverer.py:33-46, the loop over models_modules from position k on.
\* st carries the locals: models, model_module (<<>> while unbound), and the
\* effects so far: loaded, stdout, raised.
RECURSIVE sql_loop(_, _, _, _)
sql_loop(models_modules, k, cont, st0) ==
  IF k > Len(models_modules) \/ st0.raised # "none" THEN st0
  ELSE LET model_name == models_modules[k]
           body == cont[model_name]
           tried == [st0 EXCEPT !.imports = Append(@, model_name)]
       IN
    IF body.raises = "none" THEN
      \* import succeeds: model_module is rebound, the attributes are inspected
      LET found == \E n \in 1..Len(body.attrs) : is_model_class(body.attrs[n])
      IN  sql_loop(models_modules, k + 1, cont,
            [tried EXCEPT !.model_module = model_name,
                       !.loaded = @ \cup {model_name},
                       !.models = IF found THEN @ \cup {model_name} ELSE @])
    ELSE IF is_caught(body.raises) THEN
      \* the handler formats {model_module}: the previous iteration's module,
      \* or an unbound local when no import has succeeded yet in this call
      IF tried.model_module = <<>>
      THEN [tried EXCEPT !.raised = "UnboundLocalError"]
      ELSE sql_loop(models_modules, k + 1, cont,
             [tried EXCEPT !.stdout = Append(@,
                  Line("import_failure", tried.model_module, body.raises))])
    ELSE [tried EXCEPT !.raised = body.raises]

\* list(models): the elements of the set in some order
Listings(S) ==
  {q \in [1..Cardinality(S) -> S] : \A a, b \in 1..Cardinality(S) : q[a] = q[b] => a = b}

\* models_discoverer.py  get_sql_models(features_module)
GetSqlModels ==
  LET models_modules == get_features_packages(root, tree, "models.[^\\.]*", TRUE)
      scanned == loaded \cup walk_imports(root, tree)
  IN
  /\ call' = [op |-> "get_sql_models", package_name |-> "models.[^\\.]*",
              modules_only |-> TRUE]
  /\ IF Len(models_modules) = 0 THEN
       /\ stdout' = <<Line("no_models", root, "none")>>
       /\ result' = <<>>
       /\ raised' = "none"
       /\ loaded' = scanned
       /\ imports' = <<>>
     ELSE
       LET st == sql_loop(models_modules, 1, content,
                   [models |-> {}, model_module |-> <<>>, loaded |-> scanned,
                    stdout |-> <<>>, imports |-> <<>>, raised |-> "none"])
       IN  /\ stdout' = st.stdout
           /\ imports' = st.imports
           /\ raised' = st.raised
           /\ loaded' = st.loaded
           /\ IF st.raised = "none"
              THEN result' \in Listings(st.models)
              ELSE result' = <<>>
  /\ UNCHANGED <<root, tree, content, app>>
  /\ UNCHANGED otherVars

\* (mutation) each router is put in front of the routes already there
RECURSIVE include_routers_front(_, _, _, _)
include_routers_front(attrs, n, module_name, st) ==
  IF n > Len(attrs) THEN st
  ELSE IF isinstance_APIRouter(attrs[n])
       THEN include_routers_front(attrs, n + 1, module_name,
              [st EXCEPT !.app = <<(<<module_name, attrs[n]>>)>> \o @,
                         !.stdout = Append(@, Line("included", module_name, "none"))])
       ELSE include_routers_front(attrs, n + 1, module_name, st)

\* routes_discoverer.py:40-43, the loop over dir(router_module) from position n on
RECURSIVE include_routers(_, _, _, _)
include_routers(attrs, n, module_name, st) ==
  IF n > Len(attrs) THEN st
  ELSE IF isinstance_APIRouter(attrs[n])
       THEN include_routers(attrs, n + 1, module_name,
              [st EXCEPT !.app = Append(@, <<module_name, attrs[n]>>),
                         !.stdout = Append(@, Line("included", module_name, "none"))])
       ELSE include_routers(attrs, n + 1, module_name, st)

\* routes_discoverer.py:36-47, the loop over routes_modules from position k on
RECURSIVE routes_loop(_, _, _, _)
routes_loop(routes_modules, k, cont, st0) ==
  IF k > Len(routes_modules) \/ st0.raised # "none" THEN st0
  ELSE LET module_name == routes_modules[k]
           body == cont[module_name]
           tried == [st0 EXCEPT !.imports = Append(@, module_name)]
       IN
    IF body.raises = "none" THEN
      routes_loop(routes_modules, k + 1, cont,
        include_routers(body.attrs, 1, module_name,
          [tried EXCEPT !.loaded = @ \cup {module_name}]))
    ELSE IF is_caught(body.raises) THEN
      routes_loop(routes_modules, k + 1, cont,
        [tried EXCEPT !.stdout = Append(@,
             Line("import_failure", module_name, body.raises))])
    ELSE [tried EXCEPT !.raised = body.raises]

\* routes_discoverer.py  add_features_routes(application, features_module);
\* main.py calls it once, on the application it has just built
AddFeaturesRoutes ==
  LET routes_modules == get_features_packages(root, tree, "routes", TRUE)
      scanned == loaded \cup walk_imports(root, tree)
  IN
  /\ app = <<>>
  /\ call' = [op |-> "add_features_routes", package_name |-> "routes",
              modules_only |-> TRUE]
  /\ result' = <<>>
  /\ IF Len(routes_modules) = 0 THEN
       /\ stdout' = <<Line("no_routes", root, "none")>>
       /\ raised' = "none"
       /\ loaded' = scanned
       /\ imports' = <<>>
       /\ app' = app
     ELSE
       LET st == routes_loop(routes_modules, 1, content,
                   [app |-> app, loaded |-> scanned, stdout |-> <<>>,
                    imports |-> <<>>, raised |-> "none"])
       IN  /\ stdout' = st.stdout
           /\ imports' = st.imports
           /\ raised' = st.raised
           /\ loaded' = st.loaded
           /\ app' = st.app
  /\ UNCHANGED <<root, tree, content>>
  /\ UNCHANGED otherVars

\* ---------------------------------------------------------- specifications
\* The collectors, over trees whose leaf modules have every kind of body
Next ==
  \/ GetSqlModels
  \/ AddFeaturesRoutes

Spec == Init /\ [][Next]_vars

\* The scanner alone: it never imports a leaf module, so bodies do not matter
InitScan ==
  /\ root \in RootNames
  /\ tree \in ScanTrees
  /\ content = [m \in {FullName(root, p) : p \in ModulesOf(tree)} |-> Loads(<<"other">>)]
  /\ loaded = Prefixes(root)
  /\ call = NoCall
  /\ result = <<>>
  /\ raised = "none"
  /\ stdout = <<>>
  /\ imports = <<>>
  /\ app = <<>>
  /\ store = NoRows
  /\ req = <<>>
  /\ fs = NoFeatures
  /\ gen = NoGen

NextScan ==
  \/ \E pn \in PackageNames, mo \in BOOLEAN : Scan(pn, mo)

SpecScan == InitScan /\ [][NextScan]_vars

\* ================================================================== claims
Range(q) == {q[i] : i \in 1..Len(q)}

IsScan == call.op = "get_features_packages"

\* ^<root name>\.[^.]+\.<target>$ : the structural constraint as the
\* specification words it, built from the root package's own name
LitText(chars) == [i \in 1..Len(chars) |-> LitTok(chars[i])]
structural(r, package_name) ==
  LitText(Str(r)) \o <<EscDot, NotDotPlus, EscDot>> \o Compile(package_name) \o <<EndTok>>
Structural(r, package_name, mod_name) ==
  re_anchored(structural(r, package_name), Str(mod_name))

\* C1: every name the scanner returns has exactly one feature segment between
\* the root package's name and the part matched by the target pattern
\* (it matches ^<root name>\.[^.]+\.<target>$).
C1_OneFeatureSegment ==
  IsScan => \A n \in Range(result) : Structural(root, call.package_name, n)

\* C2: every entry <root name>.<feature>.<target> of the requested kind is
\* returned, whatever the root package is called.
C2_RootNameIndependent ==
  IsScan =>
    \A p \in tree :
      (IsPkg(p) # call.modules_only /\ Structural(root, call.package_name, FullName(root, p)))
        => FullName(root, p) \in Range(result)

C9_FalseReturnsBoth ==
  IsScan =>
    /\ call.modules_only =>
         \A n \in Range(result) : \E p \in ModulesOf(tree) : n = FullName(root, p)
    /\ ~call.modules_only =>
         Range(get_features_packages(root, tree, call.package_name, TRUE)) \subseteq Range(result)

\* C10: a scan leaves the set of loaded modules as it found it.
C10_ScanImportsNothing ==
  [][call'.op = "get_features_packages" => loaded' = loaded]_vars

\* ------------------------------------------------------- collector claims
IsGetSqlModels == call.op = "get_sql_models"
IsAddFeaturesRoutes == call.op = "add_features_routes"

MatchedModels == Range(get_features_packages(root, tree, "models.[^\\.]*", TRUE))
MatchedRoutes == Range(get_features_packages(root, tree, "routes", TRUE))

FailsImport(m) == content[m].raises # "none"

\* a class mapped to a table, with a table name
TableMapped(a) == a \in {"TableClass", "MappedClass"}
HasTableClass(m) ==
  \E n \in 1..Len(content[m].attrs) : TableMapped(content[m].attrs[n])

FailureLines == {i \in 1..Len(stdout) : stdout[i].kind = "import_failure"}

\* C3: when a matched models module fails to import, at any position of the
\* list, get_sql_models reports it, returns normally, and its result holds
\* every other matched module that has a qualifying class.
C3_BadModelsModuleSkipped ==
  IsGetSqlModels =>
    LET bad == {m \in MatchedModels : FailsImport(m)}
    IN  bad # {} =>
          /\ raised = "none"
          /\ Cardinality(FailureLines) = Cardinality(bad)
          /\ \A m \in MatchedModels \ bad : HasTableClass(m) => m \in Range(result)

\* C4: when a matched routes module raises on import, in any position of the
\* batch, add_features_routes returns normally, registers every router of
\* every other matched routes module, and reports exactly one import failure
\* for each failing module.
C4_BadRoutesModuleSkipped ==
  IsAddFeaturesRoutes =>
    LET bad == {m \in MatchedRoutes : FailsImport(m)}
    IN  bad # {} =>
          /\ raised = "none"
          /\ \A m \in MatchedRoutes \ bad : \A n \in 1..Len(content[m].attrs) :
               isinstance_APIRouter(content[m].attrs[n])
                 => <<m, content[m].attrs[n]>> \in Range(app)
          /\ \A m \in bad :
               Cardinality({i \in FailureLines : stdout[i].module = m}) = 1

\* C5: every import-failure report names the module whose import failed,
\* with the cause, and printing the report never fails.
C5_ReportNamesFailedModule ==
  (IsGetSqlModels \/ IsAddFeaturesRoutes) =>
    /\ raised # "UnboundLocalError"
    /\ \A i \in FailureLines :
         /\ stdout[i].module \in DOMAIN content
         /\ content[stdout[i].module].raises = stdout[i].cause

\* C6: a matched models module with no table-mapped class that has a table
\* name is absent from get_sql_models' result.
C6_NoTableClassNoEntry ==
  IsGetSqlModels => \A m \in Range(result) : HasTableClass(m)

\* C7: the modules get_sql_models tries to import are exactly the leaf modules
\* <features root>.<feature>.models.<leaf>.
ModelsLeaves ==
  {FullName(root, p) : p \in {q \in ModulesOf(tree) : Len(q) = 3 /\ q[2] = "models"}}
C7_CandidatesAreModelsLeaves ==
  IsGetSqlModels =>
    /\ Range(imports) \subseteq ModelsLeaves
    /\ raised = "none" => Range(imports) = ModelsLeaves

\* C11: the routers are merged into the application's route table module by
\* module in the order the scanner returned the modules, and within a module
\* in the order its attributes are enumerated; every router attribute of
\* every successfully imported module is merged (once).
ScannedRoutes == get_features_packages(root, tree, "routes", TRUE)
PosIn(q, x) == CHOOSE i \in 1..Len(q) : q[i] = x
ImportedRoutes == {m \in Range(imports) : ~FailsImport(m)}
C11_RoutersInScanOrder ==
  IsAddFeaturesRoutes =>
    /\ \A m \in ImportedRoutes : \A n \in 1..Len(content[m].attrs) :
         isinstance_APIRouter(content[m].attrs[n])
           => \E i \in 1..Len(app) : app[i] = <<m, content[m].attrs[n]>>
    /\ \A i \in 1..Len(app) :
         /\ app[i][1] \in ImportedRoutes
         /\ app[i][2] \in Range(content[app[i][1]].attrs)
         /\ isinstance_APIRouter(app[i][2])
    /\ \A i, j \in 1..Len(app) : i < j =>
         \/ PosIn(ScannedRoutes, app[i][1]) < PosIn(ScannedRoutes, app[j][1])
         \/ /\ app[i][1] = app[j][1]
            /\ PosIn(content[app[i][1]].attrs, app[i][2])
                 < PosIn(content[app[j][1]].attrs, app[j][2])

\* C11 witness: two routes modules were imported and each merged two routers
C11_Witness ==
  /\ IsAddFeaturesRoutes
  /\ Len(app) = 4
  /\ app[1][1] # app[4][1]

\* C12: a matched models module with N >= 1 qualifying classes appears exactly
\* once in get_sql_models' result, whatever N is and whatever other modules
\* are in the batch.
Occurrences(q, x) == Cardinality({i \in 1..Len(q) : q[i] = x})
C12_ModuleListedOnce ==
  IsGetSqlModels =>
    \A m \in MatchedModels :
      (~FailsImport(m) /\ HasTableClass(m)) => Occurrences(result, m) = 1

\* C13: when the scan matches no models module, get_sql_models returns an
\* empty collection without raising, imports nothing, and prints the
\* 'no models found' line exactly once.
C13_NoModelsFound ==
  [][(call'.op = "get_sql_models" /\ MatchedModels = {}) =>
       /\ result' = <<>>
       /\ raised' = "none"
       /\ imports' = <<>>
       /\ loaded' = loaded
       /\ stdout' = <<Line("no_models", root, "none")>>]_vars

\* ===================================================== feature endpoints
\* template_feature/routes.py update and delete, with BaseModelService.  The
\* handlers are coroutines: another request can run at every await, so each
\* awaited database call is one step.  Every statement sees the rows as last
\* committed.
Request(op, id, has_value) ==
  [op |-> op, id |-> id, has_value |-> has_value,
   pc |-> "start", status |-> 0, error |-> "none"]

\* PUT /update/{id} with or without a value in the body, DELETE /delete/{id}
Requests ==
  {Request("update", i, hv) : i \in Ids, hv \in BOOLEAN}
    \cup {Request("delete", i, FALSE) : i \in Ids}

Respond(r, status, error) ==
  req' = [req EXCEPT ![r].pc = "done", ![r].status = status, ![r].error = error]

Present(id) == store[id] # "absent"

\* routes.py:68-70 / 85-87   db_obj = await service.load(...); 404 if not db_obj
EndpointLoad(r) ==
  /\ req[r].pc = "start"
  /\ IF Present(req[r].id)
     THEN req' = [req EXCEPT ![r].pc = "loaded"]
     ELSE Respond(r, 404, "HTTPException")
  /\ UNCHANGED store

\* base_model_service.py:82-87 / 99-101   the service selects the row again;
\* scalar_one_or_none() gives None when it is gone, and the code goes on to
\* setattr(None, ...), session.add(None) or session.delete(None)
ServiceFetch(r) ==
  /\ req[r].pc = "loaded"
  /\ IF Present(req[r].id)
     THEN req' = [req EXCEPT ![r].pc = "fetched"]
     ELSE Respond(r, 500,
            IF req[r].op = "update" /\ req[r].has_value
            THEN "AttributeError" ELSE "UnmappedInstanceError")
  /\ UNCHANGED store

\* base_model_service.py:88 / 102   await session.commit()
ServiceCommit(r) ==
  /\ req[r].pc = "fetched"
  /\ IF req[r].op = "delete" THEN
       \* a DELETE that matches no row only warns
       /\ store' = [store EXCEPT ![req[r].id] = "absent"]
       /\ Respond(r, 204, "none")
     ELSE IF ~req[r].has_value THEN
       \* nothing was set: no UPDATE is flushed
       /\ req' = [req EXCEPT ![r].pc = "committed"]
       /\ UNCHANGED store
     ELSE IF Present(req[r].id) THEN
       /\ store' = [store EXCEPT ![req[r].id] = "v1"]
       /\ req' = [req EXCEPT ![r].pc = "committed"]
     ELSE
       \* the UPDATE matches no row
       /\ Respond(r, 500, "StaleDataError")
       /\ UNCHANGED store

\* base_model_service.py:89-90   await session.refresh(db_obj); return
ServiceRefresh(r) ==
  /\ req[r].pc = "committed"
  /\ IF Present(req[r].id)
     THEN Respond(r, 200, "none")
     ELSE Respond(r, 500, "InvalidRequestError")
  /\ UNCHANGED store

discoveryVars == <<root, tree, content, loaded, call, result, raised, stdout, imports, app>>
genVars == <<fs, gen>>

InitCrud ==
  /\ store \in [Ids -> {"absent", "v0"}]
  /\ req \in [1..MaxRequests -> Requests]
  /\ root = <<"features">>
  /\ tree = {}
  /\ content = <<>>
  /\ loaded = Prefixes(root)
  /\ call = NoCall
  /\ result = <<>>
  /\ raised = "none"
  /\ stdout = <<>>
  /\ imports = <<>>
  /\ app = <<>>
  /\ fs = NoFeatures
  /\ gen = NoGen

NextCrud ==
  \E r \in DOMAIN req :
    \/ EndpointLoad(r) /\ UNCHANGED <<discoveryVars, genVars>>
    \/ ServiceFetch(r) /\ UNCHANGED <<discoveryVars, genVars>>
    \/ ServiceCommit(r) /\ UNCHANGED <<discoveryVars, genVars>>
    \/ ServiceRefresh(r) /\ UNCHANGED <<discoveryVars, genVars>>

SpecCrud == InitCrud /\ [][NextCrud]_vars

\* C14: update and delete answer a request for a row that does not exist with
\* the 404 HTTPException under every interleaving of requests, also when
\* another request deletes the row between the endpoint's load and the
\* service's own select; a missing row produces no other error.
C14_MissingRowIs404 ==
  \A r \in DOMAIN req : req[r].error \in {"none", "HTTPException"}

\* ===================================================== generate_feature.py
\* Text is a sequence of one-character strings.
UpperCase == <<"A","B","C","D","E","F","G","H","I","J","K","L","M","N","O","P","Q","R","S","T","U","V","W","X","Y","Z">>
LowerCase == <<"a","b","c","d","e","f","g","h","i","j","k","l","m","n","o","p","q","r","s","t","u","v","w","x","y","z">>
Digits == <<"0","1","2","3","4","5","6","7","8","9">>

IsUpper(ch) == \E i \in 1..Len(UpperCase) : UpperCase[i] = ch
IsLower(ch) == \E i \in 1..Len(LowerCase) : LowerCase[i] = ch
IsDigit(ch) == \E i \in 1..Len(Digits) : Digits[i] = ch

\* str.lower and str.upper on one character
lower_ch(ch) ==
  IF IsUpper(ch) THEN LowerCase[CHOOSE i \in 1..Len(UpperCase) : UpperCase[i] = ch] ELSE ch
upper_ch(ch) ==
  IF IsLower(ch) THEN UpperCase[CHOOSE i \in 1..Len(LowerCase) : LowerCase[i] = ch] ELSE ch

lower(s) == [i \in 1..Len(s) |-> lower_ch(s[i])]

\* str.replace(a, b) for one-character a and b
replace_ch(s, a, b) == [i \in 1..Len(s) |-> IF s[i] = a THEN b ELSE s[i]]

\* the length of the run of [a-z] that starts at s[k]
RECURSIVE LowerRun(_, _)
LowerRun(s, k) ==
  IF k <= Len(s) /\ IsLower(s[k]) THEN 1 + LowerRun(s, k + 1) ELSE 0

\* generate_feature.py:19   re.sub('(.)([A-Z][a-z]+)', r'\1_\2', name):
\* leftmost matches, not overlapping, the run of lower case taken greedily
RECURSIVE sub_word(_)
sub_word(s) ==
  IF Len(s) = 0 THEN <<>>
  ELSE IF Len(s) >= 3 /\ s[1] # "\n" /\ IsUpper(s[2]) /\ LowerRun(s, 3) >= 1
  THEN <<s[1], "_">> \o SubSeq(s, 2, 2 + LowerRun(s, 3))
         \o sub_word(SubSeq(s, 3 + LowerRun(s, 3), Len(s)))
  ELSE <<s[1]>> \o sub_word(Tail(s))

\* generate_feature.py:20   re.sub('([a-z0-9])([A-Z])', r'\1_\2', s1)
RECURSIVE sub_hump(_)
sub_hump(s) ==
  IF Len(s) = 0 THEN <<>>
  ELSE IF Len(s) >= 2 /\ (IsLower(s[1]) \/ IsDigit(s[1])) /\ IsUpper(s[2])
  THEN <<s[1], "_", s[2]>> \o sub_hump(SubSeq(s, 3, Len(s)))
  ELSE <<s[1]>> \o sub_hump(Tail(s))

to_snake_case(name) ==
  replace_ch(replace_ch(lower(sub_hump(sub_word(name))), " ", "_"), "-", "_")

\* str.split(sep): the pieces between separators, empty ones included
RECURSIVE split(_, _)
split(s, sep) ==
  IF \A i \in 1..Len(s) : s[i] # sep THEN <<s>>
  ELSE LET k == CHOOSE i \in 1..Len(s) : s[i] = sep /\ \A j \in 1..(i - 1) : s[j] # sep
       IN <<SubSeq(s, 1, k - 1)>> \o split(SubSeq(s, k + 1, Len(s)), sep)

\* str.capitalize
capitalize(w) == [i \in 1..Len(w) |-> IF i = 1 THEN upper_ch(w[i]) ELSE lower_ch(w[i])]

RECURSIVE join_words(_)
join_words(ws) == IF Len(ws) = 0 THEN <<>> ELSE ws[1] \o join_words(Tail(ws))

to_pascal_case(name) ==
  LET parts == split(to_snake_case(name), "_")
  IN join_words([i \in 1..Len(parts) |-> capitalize(parts[i])])

to_camel_case(name) ==
  LET parts == split(to_snake_case(name), "_")
  IN join_words([i \in 1..Len(parts) |-> IF i = 1 THEN parts[i] ELSE capitalize(parts[i])])

\* ------------------------------------------------------------ the file system
\* os.path.join(dir, text): the text's components; "/" separates them and
\* empty components do not count.  Names here are relative and have no dots.
RECURSIVE NonEmpty(_)
NonEmpty(ws) ==
  IF Len(ws) = 0 THEN <<>>
  ELSE IF Len(ws[1]) = 0 THEN NonEmpty(Tail(ws))
  ELSE <<ws[1]>> \o NonEmpty(Tail(ws))

components(text) == NonEmpty(split(text, "/"))

IsPrefix(d, p) == Len(d) <= Len(p) /\ SubSeq(p, 1, Len(d)) = d

exists(f, p) == p \in DOMAIN f
isdir(f, p) == p \in DOMAIN f /\ f[p].kind = "dir"

\* the placeholders and the names of the template's files
feature_name == <<"f","e","a","t","u","r","e","_","n","a","m","e">>
FeatureName == <<"F","e","a","t","u","r","e","N","a","m","e">>
featureName == <<"f","e","a","t","u","r","e","N","a","m","e">>
dot_py == <<".","p","y">>
dot_pyc == <<".","p","y","c">>
services_py == <<"_","s","e","r","v","i","c","e","s",".","p","y">>
models_dir == <<"m","o","d","e","l","s">>
services_dir == <<"s","e","r","v","i","c","e","s">>
routes_py == <<"r","o","u","t","e","s",".","p","y">>

\* template_feature/: a file's text is the sequence of its pieces, a piece
\* being a placeholder or text without one
template_feature ==
  LET model == <<models_dir, feature_name \o dot_py>>
      route == <<routes_py>>
      service == <<services_dir, feature_name \o services_py>>
  IN [p \in {<<models_dir>>, model, route, <<services_dir>>, service} |->
        IF p = model THEN File(<<FeatureName, feature_name, <<"t","a","b","l","e">>>>)
        ELSE IF p = route THEN File(<<feature_name, FeatureName, <<"r","o","u","t","e","r">>>>)
        ELSE IF p = service THEN File(<<FeatureName, feature_name>>)
        ELSE Dir]

\* shutil.copytree(template_dir, dst): os.makedirs(dst), parents included,
\* then every entry of the template below it
copytree(f, dst) ==
  LET made == {SubSeq(dst, 1, k) : k \in 0..Len(dst)}
      copied == {dst \o e : e \in DOMAIN template_feature}
  IN [p \in DOMAIN f \cup made \cup copied |->
        IF p \in DOMAIN f THEN f[p]
        ELSE IF p \in made THEN Dir
        ELSE template_feature[SubSeq(p, Len(dst) + 1, Len(p))]]

\* os.rename(src, dst) of a file can be done when src is there and dst's
\* directory is; otherwise FileNotFoundError
can_rename(f, src, dst) ==
  /\ exists(f, src)
  /\ Len(dst) > 0
  /\ isdir(f, SubSeq(dst, 1, Len(dst) - 1))

rename(f, src, dst) ==
  [p \in (DOMAIN f \ {src}) \cup {dst} |-> IF p = dst THEN f[src] ELSE f[p]]

EndsWith(text, suffix) ==
  Len(suffix) <= Len(text)
    /\ SubSeq(text, Len(text) - Len(suffix) + 1, Len(text)) = suffix

\* content.replace(old, new) on a text of pieces
replace(text, old, new) == [i \in 1..Len(text) |-> IF text[i] = old THEN new ELSE text[i]]

\* generate_feature.py:85-100   the os.walk loop over feature_dir
replace_placeholders(f, feature_dir, snake, pascal, camel) ==
  [p \in DOMAIN f |->
     IF /\ f[p].kind = "file"
        /\ IsPrefix(feature_dir, p)
        /\ ~EndsWith(p[Len(p)], dot_pyc)
     THEN File(replace(replace(replace(f[p].text, feature_name, snake),
                               FeatureName, pascal), featureName, camel))
     ELSE f[p]]

\* generate_feature.py:49-102
create_feature(f, name) ==
  LET snake_case_name == to_snake_case(name)
      pascal_case_name == to_pascal_case(name)
      camel_case_name == to_camel_case(name)
      feature_dir == components(snake_case_name)
      copied == copytree(f, feature_dir)
      model_src == feature_dir \o <<models_dir, feature_name \o dot_py>>
      model_dst == feature_dir \o <<models_dir>> \o components(snake_case_name \o dot_py)
      service_src == feature_dir \o <<services_dir, feature_name \o services_py>>
      service_dst == feature_dir \o <<services_dir>> \o components(snake_case_name \o services_py)
      renamed1 == rename(copied, model_src, model_dst)
      renamed2 == rename(renamed1, service_src, service_dst)
  IN IF exists(f, feature_dir) THEN [fs |-> f, returned |-> "False"]
     ELSE IF ~can_rename(copied, model_src, model_dst)
     THEN [fs |-> copied, returned |-> "FileNotFoundError"]
     ELSE IF ~can_rename(renamed1, service_src, service_dst)
     THEN [fs |-> renamed1, returned |-> "FileNotFoundError"]
     ELSE [fs |-> replace_placeholders(renamed2, feature_dir, snake_case_name,
                                       pascal_case_name, camel_case_name),
           returned |-> "True"]

\* the names typed at the prompt
FeatureNames ==
  { <<"a","b">>,
    <<"A","b">>,
    <<"a","B">>,
    <<"a","-","b">>,
    <<"a"," ","b">>,
    <<"A","B","c">>,
    <<"c">>,
    <<"a","b","/","c">>,
    <<"c","/","d">> }

\* generate_feature.py:105-120   one run of the command with a non-empty name
GenerateFeatureCli ==
  /\ gen.calls < MaxCalls
  /\ \E name \in FeatureNames :
       LET r == create_feature(fs, name)
       IN /\ fs' = r.fs
          /\ gen' = [calls |-> gen.calls + 1, feature_name |-> name,
                     returned |-> r.returned,
                     echo |-> CASE r.returned = "True" -> "Successfully created feature"
                                [] r.returned = "False" -> "Error creating feature"
                                [] OTHER -> "none"]
  /\ UNCHANGED <<discoveryVars, store, req>>

\* a project with no feature yet, or with one written by hand
HandMade ==
  LET d == <<<<"a","b">>>>
      f == <<<<"a","b">>, routes_py>>
  IN [p \in {<<>>, d, f} |-> IF p = f THEN File(<<<<"r","o","u","t","e","r">>>>) ELSE Dir]

InitGen ==
  /\ fs \in {NoFeatures, HandMade}
  /\ gen = NoGen
  /\ store = NoRows
  /\ req = <<>>
  /\ root = <<"features">>
  /\ tree = {}
  /\ content = <<>>
  /\ loaded = Prefixes(root)
  /\ call = NoCall
  /\ result = <<>>
  /\ raised = "none"
  /\ stdout = <<>>
  /\ imports = <<>>
  /\ app = <<>>

NextGen == GenerateFeatureCli

SpecGen == InitGen /\ [][NextGen]_vars

\* the feature directories: the directories directly below app/features
FeatureDirs(f) == {p \in DOMAIN f : Len(p) = 1 /\ f[p].kind = "dir"}

\* what a directory holds: every entry at or below it
Contents(f, d) == [p \in {q \in DOMAIN f : IsPrefix(d, q)} |-> f[p]]

\* C15: create_feature(name), when app/features/<snake_case(name)> already
\* exists, returns False and creates, renames and rewrites no file; so a
\* feature directory that existed before a call has the same contents after it.
C15_ExistingFeatureUntouched ==
  [][gen'.calls # gen.calls =>
       /\ exists(fs, components(to_snake_case(gen'.feature_name)))
            => gen'.returned = "False" /\ fs' = fs
       /\ \A d \in FeatureDirs(fs) : Contents(fs', d) = Contents(fs, d)]_vars

====
